---- MODULE Spec2Model ----
(***************************************************************************)
(* phogo: a terminal image browser (Bubble Tea program).                   *)
(*                                                                         *)
(* The model follows the last program of src/main.go (lines 207-612): the  *)
(* session struct `model`, its Update handler for the four kinds of        *)
(* message (key, window size, render completion, timer tick), the catalog  *)
(* function getFiles and the part of the filesystem the handlers touch.    *)
(*                                                                         *)
(* File names and typed texts are sequences of one-character strings, so   *)
(* that lower-casing, prefix, substring and extension tests are computed.  *)
(* A directory is the sequence of the names leading to it; <<>> is "/".    *)
(* The viewport's width and height are left out: the renderer is opaque    *)
(* and a render result is identified by the path and the filter mode.      *)
(***************************************************************************)
EXTENDS Integers, Sequences, FiniteSets, TLC

VARIABLES
    m,        \* the session: the fields of `type model struct`
    fs,       \* the filesystem: a set of directory entries
    renders,  \* render commands in flight, oldest request first
    ticks,    \* number of armed slideshow timers (tea.Tick in flight)
    exit,     \* "running", "quit" (tea.Quit) or "panic" (failed type assertion)
    steps,    \* number of messages Update has handled
    lastMsg   \* the message Update handled last (history)

vars == <<m, fs, renders, ticks, exit, steps, lastMsg>>

----------------------------------------------------------------------------
(* Bounds of the model *)

MaxInFlight == 2   \* render commands in flight at once
MaxTicks == 2      \* slideshow timers armed at once
MaxSteps == 6      \* messages handled in one run

----------------------------------------------------------------------------
(* Program constants *)

stateBrowsing == "Browsing"
stateViewingImage == "ViewingImage"
stateDirBrowsing == "DirBrowsing"
stateSearching == "Searching"
stateConfirmDelete == "ConfirmDelete"
stateRenaming == "Renaming"

SortName == 0
SortSize == 1
SortDate == 2

FilterColor == "Color"
FilterGrayscale == "Grayscale"
FilterInverted == "Inverted"
FilterDuotone == "Duotone"

modes == <<FilterColor, FilterGrayscale, FilterInverted, FilterDuotone>>

----------------------------------------------------------------------------
(* Strings *)

\* the byte value of a character (those the model's names and texts use)
Code(c) ==
    CASE c = "." -> 46
      [] c = "B" -> 66
      [] c = "E" -> 69
      [] c = "a" -> 97
      [] c = "b" -> 98
      [] c = "d" -> 100
      [] c = "e" -> 101
      [] c = "g" -> 103
      [] c = "h" -> 104
      [] c = "j" -> 106
      [] c = "n" -> 110
      [] c = "p" -> 112
      [] c = "q" -> 113
      [] c = "t" -> 116
      [] c = "x" -> 120
      [] OTHER -> 0

LowerChar(c) ==
    CASE c = "B" -> "b"
      [] c = "E" -> "e"
      [] OTHER -> c

\* strings.ToLower
ToLower(s) == [i \in 1..Len(s) |-> LowerChar(s[i])]

\* strings.HasPrefix
HasPrefix(s, p) == Len(p) <= Len(s) /\ SubSeq(s, 1, Len(p)) = p

\* strings.Contains
Contains(s, sub) ==
    \E i \in 0..(Len(s) - Len(sub)) : SubSeq(s, i + 1, i + Len(sub)) = sub

\* s < t on Go strings: byte-wise lexicographic order
StrLess(s, t) ==
    \E i \in 1..(Len(t)) :
        /\ \A j \in 1..(i - 1) : j <= Len(s) /\ s[j] = t[j]
        /\ \/ i > Len(s)
           \/ i <= Len(s) /\ Code(s[i]) < Code(t[i])

\* filepath.Ext: the suffix from the last dot of the name, "" without a dot
Ext(name) ==
    LET dots == {i \in 1..Len(name) : name[i] = "."}
    IN IF dots = {} THEN <<>>
       ELSE LET last == CHOOSE i \in dots : \A j \in dots : j <= i
            IN SubSeq(name, last, Len(name))

DotDot == <<".", ".">>
ExtPng == <<".", "p", "n", "g">>
ExtJpg == <<".", "j", "p", "g">>
ExtJpeg == <<".", "j", "p", "e", "g">>

----------------------------------------------------------------------------
(* Paths and the filesystem *)

Root == <<>>

\* filepath.Dir of a directory path; the root is its own parent
Dir(p) == IF p = Root THEN Root ELSE SubSeq(p, 1, Len(p) - 1)

\* filepath.Join(dir, name) for a single name; Join cleans "", "." and ".."
Join(dir, name) ==
    IF name = DotDot THEN Dir(dir)
    ELSE IF name = <<>> \/ name = <<".">> THEN dir
    ELSE Append(dir, name)

PathOf(e) == Append(e.dir, e.name)

Exists(f, p) == p = Root \/ \E e \in f : PathOf(e) = p

\* os.Stat(p) succeeds and IsDir()
IsDirPath(f, p) == p = Root \/ \E e \in f : PathOf(e) = p /\ e.isDir

EntryAt(f, p) == CHOOSE e \in f : PathOf(e) = p

\* os.ReadDir: the entries of the directory; nil when it cannot be read
\* (getFiles drops the error)
ReadDir(f, d) == IF IsDirPath(f, d) THEN {e \in f : e.dir = d} ELSE {}

IsPathPrefix(p, q) == Len(p) <= Len(q) /\ SubSeq(q, 1, Len(p)) = p

\* os.Rename(old, new) on cleaned paths: the filesystem afterwards. rename(2)
\* replaces an existing file (or empty directory) at the new path; a failed
\* call leaves the filesystem as it was (the handler drops the error).
RenameFails(f, old, new) ==
    \/ ~Exists(f, old)
    \/ old = Root \/ new = Root
    \/ ~IsDirPath(f, Dir(new))
    \/ (old # new /\ IsPathPrefix(old, new))
    \/ /\ Exists(f, new) /\ new # old
       /\ \/ IsDirPath(f, old) # IsDirPath(f, new)
          \/ IsDirPath(f, new) /\ ReadDir(f, new) # {}

Moved(e, old, new) ==
    IF PathOf(e) = old
    THEN [e EXCEPT !.dir = Dir(new), !.name = new[Len(new)]]
    ELSE IF IsPathPrefix(old, e.dir)
    THEN [e EXCEPT !.dir = new \o SubSeq(e.dir, Len(old) + 1, Len(e.dir))]
    ELSE e

Rename(f, old, new) ==
    IF RenameFails(f, old, new) \/ old = new THEN f
    ELSE {Moved(e, old, new) : e \in {x \in f : PathOf(x) # new}}

\* os.Remove(p): removes a file or an empty directory
Remove(f, p) ==
    IF p = Root \/ ~Exists(f, p) THEN f
    ELSE IF IsDirPath(f, p) /\ ReadDir(f, p) # {} THEN f
    ELSE {e \in f : PathOf(e) # p}

----------------------------------------------------------------------------
(* The catalog: getFiles *)

item(e) ==
    [title |-> e.name, fileName |-> e.name, isDir |-> e.isDir,
     size |-> e.size, modTime |-> e.modTime]

ParentItem ==
    [title |-> DotDot, fileName |-> DotDot, isDir |-> TRUE, size |-> 0, modTime |-> 0]

IsImageName(name) == ToLower(Ext(name)) \in {ExtPng, ExtJpg, ExtJpeg}

\* the loop body of getFiles without the search filter
Keeps_NoQuery(e, dirsOnly, searchQuery, showHidden) ==
    /\ ~(~showHidden /\ HasPrefix(e.name, <<".">>))
    /\ IF e.isDir THEN dirsOnly ELSE ~dirsOnly /\ IsImageName(e.name)

\* the loop body of getFiles with showHidden keeping the hidden entries only
Keeps_HiddenOnly(e, dirsOnly, searchQuery, showHidden) ==
    /\ showHidden = HasPrefix(e.name, <<".">>)
    /\ ~(searchQuery # <<>> /\ ~Contains(ToLower(e.name), ToLower(searchQuery)))
    /\ IF e.isDir THEN dirsOnly ELSE ~dirsOnly /\ IsImageName(e.name)

\* the loop body of getFiles: whether the entry is appended to items
Keeps(e, dirsOnly, searchQuery, showHidden) ==
    /\ ~(~showHidden /\ HasPrefix(e.name, <<".">>))
    /\ ~(searchQuery # <<>> /\ ~Contains(ToLower(e.name), ToLower(searchQuery)))
    /\ IF e.isDir THEN dirsOnly ELSE ~dirsOnly /\ IsImageName(e.name)

\* the items before sorting, as a set
Collected(f, dir, dirsOnly, searchQuery, showHidden) ==
    (IF dirsOnly THEN {ParentItem} ELSE {})
    \cup {item(e) : e \in {x \in ReadDir(f, dir) : Keeps(x, dirsOnly, searchQuery, showHidden)}}

\* the comparison function with the size and time orders turned round
less_Ascending(sortMode, a, b) ==
    IF a.title = DotDot THEN TRUE
    ELSE IF b.title = DotDot THEN FALSE
    ELSE CASE sortMode = SortSize -> a.size < b.size
           [] sortMode = SortDate -> a.modTime < b.modTime
           [] OTHER -> StrLess(ToLower(a.title), ToLower(b.title))

\* the comparison function handed to sort.Slice
less(sortMode, a, b) ==
    IF a.title = DotDot THEN TRUE
    ELSE IF b.title = DotDot THEN FALSE
    ELSE CASE sortMode = SortSize -> a.size > b.size
           [] sortMode = SortDate -> a.modTime > b.modTime
           [] OTHER -> StrLess(ToLower(a.title), ToLower(b.title))

\* sort.Slice is not stable: every order of S in which no later element is
\* less than an earlier one is a possible result
RECURSIVE SortedSeqs(_, _)
SortedSeqs(S, sortMode) ==
    IF S = {} THEN {<<>>}
    ELSE UNION { {<<x>> \o t : t \in SortedSeqs(S \ {x}, sortMode)} :
                 x \in {y \in S : \A z \in S \ {y} : ~less(sortMode, z, y)} }

\* getFiles(dir, dirsOnly, searchQuery, showHidden, sortMode): the possible results
getFiles(f, dir, dirsOnly, searchQuery, showHidden, sortMode) ==
    SortedSeqs(Collected(f, dir, dirsOnly, searchQuery, showHidden), sortMode)

----------------------------------------------------------------------------
(* The list widget, the text inputs and the commands *)

\* list.SelectedItem() is nil when the cursor is not on an item
HasSelected(mm) == mm.cursor >= 0 /\ mm.cursor < Len(mm.items)
SelectedItem(mm) == mm.items[mm.cursor + 1]

\* list.CursorDown / list.CursorUp: the cursor stops at the ends
CursorDown(mm) ==
    IF mm.cursor + 1 < Len(mm.items) THEN [mm EXCEPT !.cursor = mm.cursor + 1]
    ELSE IF Len(mm.items) = 0 THEN [mm EXCEPT !.cursor = 0]
    ELSE [mm EXCEPT !.cursor = Len(mm.items) - 1]

CursorUp(mm) == IF mm.cursor > 0 THEN [mm EXCEPT !.cursor = mm.cursor - 1] ELSE mm

\* m.list.Update(msg) for a key: the bindings initialModel sets ("down"/"j",
\* "up"/"k"); list filtering is disabled, so no other key of the model's
\* alphabet moves the cursor or changes the items
ListUpdate(mm, k) ==
    IF k = "j" THEN CursorDown(mm)
    ELSE IF k = "k" THEN CursorUp(mm)
    ELSE mm

\* the keys that carry a printable character
Runes == {"q", "P", "d", "x", "r", "s", "y", "h", "/", "1", "2", "j", "k", "n", "e", "g"}

\* textinput.Update(msg) for a key, the cursor at the end of the value
TextUpdate(value, k) ==
    IF k = "backspace" THEN (IF value = <<>> THEN value ELSE SubSeq(value, 1, Len(value) - 1))
    ELSE IF k \in Runes THEN Append(value, k)
    ELSE value

\* the result of renderImage(path, w, h, mode), carried by imageRenderedMsg
Content(path, mode) == [path |-> path, mode |-> mode]
NoContent == Content(<<>>, "")

\* what one call of Update returns: the session, the filesystem it leaves, the
\* commands (a render request, a timer, tea.Quit) and whether it panicked
Out(mm, f, render, tick, ex) ==
    [m |-> mm, fs |-> f, render |-> render, tick |-> tick, exit |-> ex]

Stay(mm, f) == Out(mm, f, <<>>, FALSE, "running")
Panic(mm, f) == Out(mm, f, <<>>, FALSE, "panic")

\* renderImageCmd for the selected entry of the working directory
RenderSelected(mm) ==
    <<Content(Join(mm.currentDir, SelectedItem(mm).fileName), mm.filterMode)>>

\* reloadImageList / reloadDirList: m.list.SetItems(getFiles(...)); the list
\* keeps its cursor
reloadImageList(mm, f) ==
    {[mm EXCEPT !.items = its] :
        its \in getFiles(f, mm.currentDir, FALSE, mm.searchQuery, mm.showHidden, mm.sortMode)}

reloadDirList(mm, f) ==
    {[mm EXCEPT !.items = its] :
        its \in getFiles(f, mm.dirBrowserPath, TRUE, mm.searchQuery, mm.showHidden, mm.sortMode)}

----------------------------------------------------------------------------
(* Update: tea.KeyMsg, by session state *)

\* case stateBrowsing
KeyBrowsing(mm, f, k) ==
    IF k = "q" THEN {Out(mm, f, <<>>, FALSE, "quit")}
    ELSE IF k = "enter" /\ HasSelected(mm) /\ ~SelectedItem(mm).isDir
    THEN {Out([mm EXCEPT !.state = stateViewingImage, !.isRendering = TRUE],
              f, RenderSelected(mm), FALSE, "running")}
    ELSE IF k = "P" /\ HasSelected(mm) /\ ~SelectedItem(mm).isDir
    THEN {Out([mm EXCEPT !.isSlideshow = TRUE, !.state = stateViewingImage,
                         !.isRendering = TRUE],
              f, RenderSelected(mm), TRUE, "running")}
    ELSE LET after ==
                 CASE k = "d" -> reloadDirList([mm EXCEPT !.state = stateDirBrowsing], f)
                   [] k = "x" -> {[mm EXCEPT !.state = stateConfirmDelete]}
                   [] k = "r" /\ HasSelected(mm) ->
                        {[mm EXCEPT !.state = stateRenaming,
                                    !.renameInput = SelectedItem(mm).fileName]}
                   [] k = "s" -> reloadImageList([mm EXCEPT !.sortMode = (mm.sortMode + 1) % 3], f)
                   [] k = "y" /\ HasSelected(mm) -> {[mm EXCEPT !.statusMsg = "Path Copied!"]}
                   [] k = "h" -> reloadImageList([mm EXCEPT !.showHidden = ~mm.showHidden], f)
                   [] k = "/" -> {[mm EXCEPT !.state = stateSearching,
                                             !.prevDirState = stateBrowsing]}
                   [] OTHER -> {mm}
         IN {Stay(ListUpdate(m2, k), f) : m2 \in after}

\* case stateViewingImage with the back keys held until the render is done
KeyViewingImage_WaitsForRender(mm, f, k) ==
    IF k \in {"esc", "q"} /\ ~mm.isRendering
    THEN {Stay([mm EXCEPT !.state = stateBrowsing, !.statusMsg = ""], f)}
    ELSE IF k \in {"1", "2", "3", "4"}
    THEN LET idx == CASE k = "1" -> 1 [] k = "2" -> 2 [] k = "3" -> 3 [] OTHER -> 4
             m2 == [mm EXCEPT !.filterMode = modes[idx], !.isRendering = TRUE]
         IN IF HasSelected(mm)
            THEN {Out(m2, f, RenderSelected(m2), FALSE, "running")}
            ELSE {Panic(mm, f)}
    ELSE {Stay(mm, f)}

\* case stateViewingImage
KeyViewingImage(mm, f, k) ==
    IF k \in {"esc", "q"}
    THEN {Stay([mm EXCEPT !.state = stateBrowsing, !.statusMsg = ""], f)}
    ELSE IF k \in {"1", "2", "3", "4"}
    THEN LET idx == CASE k = "1" -> 1 [] k = "2" -> 2 [] k = "3" -> 3 [] OTHER -> 4
             m2 == [mm EXCEPT !.filterMode = modes[idx], !.isRendering = TRUE]
         IN IF HasSelected(mm)
            THEN {Out(m2, f, RenderSelected(m2), FALSE, "running")}
            ELSE {Panic(mm, f)}
    ELSE {Stay(mm, f)}

\* case stateDirBrowsing
KeyDirBrowsing(mm, f, k) ==
    LET entered ==
            IF HasSelected(mm)
            THEN LET itm == SelectedItem(mm)
                     newP == IF itm.fileName = DotDot THEN Dir(mm.dirBrowserPath)
                             ELSE Join(mm.dirBrowserPath, itm.fileName)
                 IN IF IsDirPath(f, newP)
                    THEN reloadDirList([mm EXCEPT !.dirBrowserPath = newP], f)
                    ELSE {mm}
            ELSE {mm}
        after ==
            CASE k = "enter" -> entered
              [] k = "d" -> reloadImageList([mm EXCEPT !.currentDir = mm.dirBrowserPath,
                                                       !.state = stateBrowsing], f)
              [] k = "h" -> reloadDirList([mm EXCEPT !.showHidden = ~mm.showHidden], f)
              [] k = "esc" -> {[mm EXCEPT !.state = stateBrowsing]}
              [] OTHER -> {mm}
    IN {Stay(ListUpdate(m2, k), f) : m2 \in after}

\* case stateSearching with the reload after enter left out
KeySearching_NoReload(mm, f, k) ==
    LET m2 == CASE k = "enter" -> [mm EXCEPT !.searchQuery = mm.searchInput,
                                             !.state = mm.prevDirState]
                [] k = "esc" -> [mm EXCEPT !.state = mm.prevDirState]
                [] OTHER -> mm
    IN {Stay([m2 EXCEPT !.searchInput = TextUpdate(m2.searchInput, k)], f)}

\* case stateSearching with esc committing the typed text as enter does
KeySearching_CancelCommits(mm, f, k) ==
    LET after ==
            IF k \in {"enter", "esc"}
            THEN reloadImageList([mm EXCEPT !.searchQuery = mm.searchInput,
                                            !.state = mm.prevDirState], f)
            ELSE {mm}
    IN {Stay([m2 EXCEPT !.searchInput = TextUpdate(m2.searchInput, k)], f) : m2 \in after}

\* case stateSearching
KeySearching(mm, f, k) ==
    LET after ==
            CASE k = "enter" ->
                   LET m2 == [mm EXCEPT !.searchQuery = mm.searchInput,
                                        !.state = mm.prevDirState]
                   IN IF m2.state = stateDirBrowsing THEN reloadDirList(m2, f)
                      ELSE reloadImageList(m2, f)
              [] k = "esc" -> {[mm EXCEPT !.state = mm.prevDirState]}
              [] OTHER -> {mm}
    IN {Stay([m2 EXCEPT !.searchInput = TextUpdate(m2.searchInput, k)], f) : m2 \in after}

\* case stateRenaming
KeyRenaming(mm, f, k) ==
    IF k = "enter"
    THEN IF ~HasSelected(mm) THEN {Panic(mm, f)}
         ELSE LET f2 == Rename(f, Join(mm.currentDir, SelectedItem(mm).fileName),
                               Join(mm.currentDir, mm.renameInput))
              IN {Stay(m2, f2) : m2 \in reloadImageList([mm EXCEPT !.state = stateBrowsing], f2)}
    ELSE LET m2 == IF k = "esc" THEN [mm EXCEPT !.state = stateBrowsing] ELSE mm
         IN {Stay([m2 EXCEPT !.renameInput = TextUpdate(m2.renameInput, k)], f)}

\* case stateConfirmDelete with enter taken as a confirmation too
KeyConfirmDelete_EnterConfirms(mm, f, k) ==
    IF k \in {"y", "enter"}
    THEN IF ~HasSelected(mm) THEN {Panic(mm, f)}
         ELSE LET f2 == Remove(f, Join(mm.currentDir, SelectedItem(mm).fileName))
              IN {Stay([m2 EXCEPT !.state = stateBrowsing], f2) : m2 \in reloadImageList(mm, f2)}
    ELSE {Stay([mm EXCEPT !.state = stateBrowsing], f)}

\* case stateConfirmDelete
KeyConfirmDelete(mm, f, k) ==
    IF k = "y"
    THEN IF ~HasSelected(mm) THEN {Panic(mm, f)}
         ELSE LET f2 == Remove(f, Join(mm.currentDir, SelectedItem(mm).fileName))
              IN {Stay([m2 EXCEPT !.state = stateBrowsing], f2) : m2 \in reloadImageList(mm, f2)}
    ELSE {Stay([mm EXCEPT !.state = stateBrowsing], f)}

\* switch m.state
KeyByState(mm, f, k) ==
    CASE mm.state = stateBrowsing -> KeyBrowsing(mm, f, k)
      [] mm.state = stateViewingImage -> KeyViewingImage(mm, f, k)
      [] mm.state = stateDirBrowsing -> KeyDirBrowsing(mm, f, k)
      [] mm.state = stateSearching -> KeySearching(mm, f, k)
      [] mm.state = stateRenaming -> KeyRenaming(mm, f, k)
      [] OTHER -> KeyConfirmDelete(mm, f, k)

\* ctrl+c treated as the earlier program's global quit/back: back to Browsing
\* first, quit only from Browsing
KeyCtrlC_BackFirst(mm, f) ==
    IF mm.state # stateBrowsing
    THEN {Stay([mm EXCEPT !.state = stateBrowsing, !.statusMsg = ""], f)}
    ELSE {Out(mm, f, <<>>, FALSE, "quit")}

\* if keyStr == "ctrl+c" { return m, tea.Quit }
KeyCtrlC(mm, f) == {Out(mm, f, <<>>, FALSE, "quit")}

\* the slideshow check left out: the flag stays and the mode handles the key
KeySlideshow_FlagKept(mm, f, k) ==
    KeyByState(mm, f, k)

\* the slideshow check without its return: the key stops the slideshow and is
\* then handled by the mode as well
KeySlideshow_ThenActs(mm, f, k) ==
    KeyByState([mm EXCEPT !.isSlideshow = FALSE, !.statusMsg = "Slideshow Stopped"], f, k)

\* if m.isSlideshow { m.isSlideshow = false; m.statusMsg = ...; return m, nil }
KeySlideshow(mm, f, k) ==
    {Stay([mm EXCEPT !.isSlideshow = FALSE, !.statusMsg = "Slideshow Stopped"], f)}

\* case tea.KeyMsg
UpdateKey(mm, f, k) ==
    IF k = "ctrl+c" THEN KeyCtrlC(mm, f)
    ELSE IF mm.isSlideshow THEN KeySlideshow(mm, f, k)
    ELSE KeyByState(mm, f, k)

----------------------------------------------------------------------------
(* Update: the other messages *)

\* case tea.WindowSizeMsg
UpdateWindowSize(mm, f) ==
    IF mm.initialImagePath # <<>>
    THEN IF ~HasSelected(mm) THEN {Panic(mm, f)}
         ELSE LET m2 == [mm EXCEPT !.state = stateViewingImage, !.isRendering = TRUE,
                                   !.initialImagePath = <<>>]
              IN {Out(m2, f, RenderSelected(m2), FALSE, "running")}
    ELSE {Stay(mm, f)}

\* case imageRenderedMsg
UpdateImageRendered(mm, f, content) ==
    {Stay([mm EXCEPT !.isRendering = FALSE, !.imgContent = content], f)}

\* case tickMsg without the wrap from the last entry to the first
UpdateTick_NoWrap(mm, f) ==
    IF mm.isSlideshow /\ mm.state = stateViewingImage
    THEN LET m2 == CursorDown(mm)
         IN IF HasSelected(m2) THEN {Out(m2, f, RenderSelected(m2), TRUE, "running")}
            ELSE {Stay(m2, f)}
    ELSE {Stay(mm, f)}

\* case tickMsg
UpdateTick(mm, f) ==
    IF mm.isSlideshow /\ mm.state = stateViewingImage
    THEN LET m2 == IF mm.cursor = Len(mm.items) - 1 THEN [mm EXCEPT !.cursor = 0]
                   ELSE CursorDown(mm)
         IN IF HasSelected(m2) THEN {Out(m2, f, RenderSelected(m2), TRUE, "running")}
            ELSE {Stay(m2, f)}
    ELSE {Stay(mm, f)}

----------------------------------------------------------------------------
(* The files and the inputs of the model *)

AJpg == <<"a", ".", "j", "p", "g">>
AJpeg == <<"a", ".", "j", "p", "e", "g">>
BPng == <<"B", ".", "p", "n", "g">>
HiddenPng == <<".", "h", ".", "p", "n", "g">>
SubDir == <<"d">>

File(dir, name, isDir, size, modTime) ==
    [dir |-> dir, name |-> name, isDir |-> isDir, size |-> size, modTime |-> modTime]

\* the directory tree the session starts in
InitFS ==
    { File(Root, AJpg, FALSE, 2, 1),
      File(Root, AJpeg, FALSE, 1, 2),
      File(Root, HiddenPng, FALSE, 3, 3),
      File(Root, SubDir, TRUE, 4, 4),
      File(<<SubDir>>, BPng, FALSE, 5, 5) }

\* the paths the program may be started with: a directory or an image file
StartPaths == {Root, <<AJpg>>}

\* the keys the user presses
Keys == {"ctrl+c", "esc", "enter", "backspace"} \cup Runes

\* the values the user's editing may give a text input
Texts ==
    { <<>>, <<"e">>, <<"q">>,
      <<"a", ".", "j", "p">>, <<"a", ".", "j", "p", "e">>, AJpeg, AJpg,
      <<"a", ".", "j", "p", "g", "q">> }

----------------------------------------------------------------------------
(* The program *)

\* initialModel(startPath)
initialModel(f, startPath) ==
    LET isFile == Exists(f, startPath) /\ ~IsDirPath(f, startPath)
        targetDir == IF isFile THEN Dir(startPath) ELSE startPath
        targetImg == IF isFile THEN startPath[Len(startPath)] ELSE <<>>
    IN { [state |-> stateBrowsing,
          items |-> its,
          cursor |-> 0,
          searchInput |-> <<>>,
          renameInput |-> <<>>,
          currentDir |-> targetDir,
          dirBrowserPath |-> targetDir,
          searchQuery |-> <<>>,
          showHidden |-> FALSE,
          statusMsg |-> "",
          imgContent |-> NoContent,
          isRendering |-> FALSE,
          isSlideshow |-> FALSE,
          prevDirState |-> stateBrowsing,
          filterMode |-> FilterColor,
          sortMode |-> SortName,
          initialImagePath |-> targetImg] :
         its \in getFiles(f, targetDir, FALSE, <<>>, FALSE, SortName) }

\* model.Init(): the command the program starts with. The receiver is a copy,
\* so the list selection made in Init does not reach the session.
InitCmd(mm) ==
    IF mm.initialImagePath # <<>>
    THEN <<Content(Join(mm.currentDir, mm.initialImagePath), mm.filterMode)>>
    ELSE <<>>

InFlight(contents) == [i \in 1..Len(contents) |-> [content |-> contents[i], stale |-> FALSE]]

\* a handled message: its type, its key and the session state it was handled in
Msg(type, key, from) == [type |-> type, key |-> key, from |-> from]

Init ==
    /\ fs = InitFS
    /\ \E p \in StartPaths : m \in initialModel(InitFS, p)
    /\ renders = InFlight(InitCmd(m))
    /\ ticks = 0
    /\ exit = "running"
    /\ steps = 0
    /\ lastMsg = Msg("none", "", stateBrowsing)

\* the event loop takes the result of one Update call: the session and the
\* filesystem it returns, and its commands started
Apply(o, pendingRenders, armed) ==
    /\ m' = o.m
    /\ fs' = o.fs
    /\ exit' = o.exit
    /\ renders' = pendingRenders \o InFlight(o.render)
    /\ ticks' = armed + (IF o.tick THEN 1 ELSE 0)
    /\ steps' = steps + 1
    /\ Len(renders') <= MaxInFlight
    /\ ticks' <= MaxTicks

\* a key press
KeyMsg(k) ==
    /\ lastMsg' = Msg("key", k, m.state)
    /\ exit = "running"
    /\ steps < MaxSteps
    /\ \E o \in UpdateKey(m, fs, k) :
        /\ o.m.searchInput \in Texts
        /\ o.m.renameInput = m.renameInput \/ o.m.renameInput \in Texts
           \/ (m.state # stateRenaming /\ o.m.state = stateRenaming)
        /\ Apply(o, renders, ticks)

\* the terminal reports its size
WindowSizeMsg ==
    /\ lastMsg' = Msg("size", "", m.state)
    /\ exit = "running"
    /\ steps < MaxSteps
    /\ \E o \in UpdateWindowSize(m, fs) : Apply(o, renders, ticks)

\* a render command completes and its imageRenderedMsg is handled; the
\* requests issued before it that are still in flight are stale from now on
ImageRenderedMsg(i) ==
    /\ lastMsg' = Msg("rendered", "", m.state)
    /\ exit = "running"
    /\ steps < MaxSteps
    /\ LET rest == [j \in 1..(Len(renders) - 1) |->
                       IF j < i THEN [renders[j] EXCEPT !.stale = TRUE]
                       ELSE renders[j + 1]]
       IN \E o \in UpdateImageRendered(m, fs, renders[i].content) : Apply(o, rest, ticks)

\* an armed timer fires and its tickMsg is handled
TickMsg ==
    /\ lastMsg' = Msg("tick", "", m.state)
    /\ exit = "running"
    /\ steps < MaxSteps
    /\ ticks > 0
    /\ \E o \in UpdateTick(m, fs) : Apply(o, renders, ticks - 1)

Next ==
    \/ \E k \in Keys : KeyMsg(k)
    \/ WindowSizeMsg
    \/ \E i \in 1..Len(renders) : ImageRenderedMsg(i)
    \/ TickMsg

Spec == Init /\ [][Next]_vars

----------------------------------------------------------------------------
(* The catalog on its own: getFiles applied to bounded inputs *)

MaxEntries == 3    \* entries of the directory getFiles lists

ETxt == <<"e", ".", "t", "x", "t">>
UpperDir == <<"E">>
HiddenDir == <<".", "e">>

\* the entries a listed directory is made of
Pool ==
    { File(Root, AJpg, FALSE, 2, 1),
      File(Root, BPng, FALSE, 2, 2),
      File(Root, HiddenPng, FALSE, 1, 2),
      File(Root, ETxt, FALSE, 3, 3),
      File(Root, SubDir, TRUE, 4, 4),
      File(Root, UpperDir, TRUE, 4, 3),
      File(Root, HiddenDir, TRUE, 3, 4) }

\* the directories getFiles is asked to list; <<SubDir>> cannot be read when
\* the tree has no such directory
ListedDirs == {Root, <<SubDir>>}

Queries == {<<>>, <<"E">>, <<"b">>, <<".", "p">>}

SortModes == {SortName, SortSize, SortDate}

CatalogInit ==
    /\ fs \in {D \in SUBSET Pool : Cardinality(D) <= MaxEntries}
    /\ \E dir \in ListedDirs, q \in Queries, hidden \in BOOLEAN, sortMode \in SortModes :
          \E mm \in initialModel(fs, dir) :
              m = [mm EXCEPT !.items = <<>>, !.searchQuery = q,
                             !.showHidden = hidden, !.sortMode = sortMode]
    /\ renders = <<>>
    /\ ticks = 0
    /\ exit = "running"
    /\ steps = 0
    /\ lastMsg = Msg("none", "", stateBrowsing)

\* the catalog is built in image mode
CatalogImages ==
    /\ steps = 0
    /\ m' \in reloadImageList(m, fs)
    /\ lastMsg' = Msg("catalog", "images", m.state)
    /\ steps' = 1
    /\ UNCHANGED <<fs, renders, ticks, exit>>

\* the catalog is built in directory mode
CatalogDirs ==
    /\ steps = 0
    /\ m' \in reloadDirList(m, fs)
    /\ lastMsg' = Msg("catalog", "dirs", m.state)
    /\ steps' = 1
    /\ UNCHANGED <<fs, renders, ticks, exit>>

\* "h": the hidden-file switch is flipped and the catalog is built again
CatalogToggleHidden ==
    /\ steps = 1
    /\ LET m2 == [m EXCEPT !.showHidden = ~m.showHidden]
       IN m' \in (IF lastMsg.key = "images" THEN reloadImageList(m2, fs)
                  ELSE reloadDirList(m2, fs))
    /\ steps' = 2
    /\ UNCHANGED <<fs, renders, ticks, exit, lastMsg>>

CatalogNext == CatalogImages \/ CatalogDirs \/ CatalogToggleHidden

SpecCatalog == CatalogInit /\ [][CatalogNext]_vars

\* a catalog has been built from the inputs the state holds
CatalogBuilt == lastMsg.type = "catalog"

----------------------------------------------------------------------------
(* Claims *)

ImageItems(mm, f) ==
    getFiles(f, mm.currentDir, FALSE, mm.searchQuery, mm.showHidden, mm.sortMode)

DirItems(mm, f) ==
    getFiles(f, mm.dirBrowserPath, TRUE, mm.searchQuery, mm.showHidden, mm.sortMode)

\* C1: when the completion of a request is handled after the completion of a
\* request issued later, the displayed content stays that of the later request.
C1_StaleCompletionDropped ==
    [][\A i \in 1..Len(renders) :
          (ImageRenderedMsg(i) /\ renders[i].stale) => m'.imgContent = m.imgContent]_vars

\* C2: a key other than ctrl+c handled while the slideshow is active clears
\* isSlideshow and changes nothing else of the session but the status line:
\* no mode change, no cursor or catalog change, no command, no file operation.
C2_KeyStopsSlideshowOnly ==
    [][\A k \in Keys \ {"ctrl+c"} :
          (m.isSlideshow /\ KeyMsg(k)) =>
              /\ ~m'.isSlideshow
              /\ m' = [m EXCEPT !.isSlideshow = FALSE, !.statusMsg = m'.statusMsg]
              /\ renders' = renders /\ ticks' = ticks /\ fs' = fs
              /\ exit' = "running"]_vars

C2_Witness ==
    /\ m.statusMsg = "Slideshow Stopped" /\ ~m.isSlideshow
    /\ m.state = stateViewingImage
    /\ exit = "running"

\* C3: q or esc ends the process only in Browsing; in every other mode it
\* does not end it, the mode becomes Browsing and the status line is cleared.
C3_PlainQuitGoesBack ==
    [][\A k \in {"q", "esc"} :
          (~m.isSlideshow /\ KeyMsg(k)) =>
              /\ exit' = "quit" => m.state = stateBrowsing
              /\ m.state # stateBrowsing =>
                    exit' = "running" /\ m'.state = stateBrowsing /\ m'.statusMsg = ""]_vars

\* C4: ctrl+c ends the process in whatever state it is handled.
C4_ForceQuitAlwaysQuits ==
    [][KeyMsg("ctrl+c") => exit' = "quit"]_vars

C4_Witness ==
    /\ exit = "quit"
    /\ m.isSlideshow /\ m.state = stateViewingImage
    /\ renders # <<>>

\* C5: in Browsing and ViewingImage the list holds the image catalog of
\* currentDir, in DirBrowsing the directory catalog of dirBrowserPath.
C5_CatalogMatchesMode ==
    /\ m.state \in {stateBrowsing, stateViewingImage} => m.items \in ImageItems(m, fs)
    /\ m.state = stateDirBrowsing => m.items \in DirItems(m, fs)

\* C6: isRendering is true whenever a render request is in flight.
C6_RenderingWhileInFlight == renders # <<>> => m.isRendering

\* C7: confirming in Searching makes the text input's value the search
\* query, returns to the remembered mode, which is Browsing, and leaves the
\* list holding the image catalog of currentDir filtered by that value.
C7_SearchConfirmCommits ==
    [][(m.state = stateSearching /\ KeyMsg("enter")) =>
          /\ m'.searchQuery = m.searchInput
          /\ m'.state = m.prevDirState /\ m'.state = stateBrowsing
          /\ m'.items \in getFiles(fs', m'.currentDir, FALSE, m.searchInput,
                                   m'.showHidden, m'.sortMode)]_vars

C7_Witness ==
    /\ m.state = stateBrowsing
    /\ m.searchQuery = <<"e">>
    /\ m.currentDir = Root /\ fs = InitFS /\ ~m.showHidden
    /\ Len(m.items) = 1 /\ m.items[1].fileName = AJpeg

\* C8: while in Searching, no message other than the confirming enter
\* changes the search query, the catalog or the cursor, whatever is typed,
\* and esc returns to the remembered mode.
C8_SearchCancelKeepsQuery ==
    [][m.state = stateSearching =>
          LET Kept == /\ m'.searchQuery = m.searchQuery
                      /\ m'.items = m.items
                      /\ m'.cursor = m.cursor
          IN /\ \A k \in Keys \ {"enter"} :
                    KeyMsg(k) => Kept /\ (k = "esc" => m'.state = m.prevDirState)
             /\ (WindowSizeMsg \/ TickMsg \/ \E i \in 1..Len(renders) : ImageRenderedMsg(i))
                    => Kept]_vars

C8_Witness ==
    /\ m.state = stateBrowsing
    /\ m.searchInput = <<"e">> /\ m.searchQuery = <<>>
    /\ m.imgContent = NoContent /\ renders = <<>>
    /\ Len(m.items) = 2

\* the old and the new path of the rename that enter in Renaming asks for
RenameSource == Join(m.currentDir, SelectedItem(m).fileName)
RenameTarget == Join(m.currentDir, m.renameInput)

\* C9: confirming a rename to the name of another existing file sets the
\* status line and leaves both files as they were.
C9_RenameOntoExistingFails ==
    [][(/\ m.state = stateRenaming /\ HasSelected(m)
        /\ Exists(fs, RenameTarget) /\ RenameTarget # RenameSource
        /\ KeyMsg("enter")) =>
          /\ m'.statusMsg # ""
          /\ fs' = fs]_vars

\* C10: after enter in Renaming and after y in ConfirmDelete the mode is
\* Browsing and the list holds the image catalog of currentDir as the
\* filesystem now is.
C10_FileOpReturnsAndReloads ==
    [][((m.state = stateRenaming /\ KeyMsg("enter"))
        \/ (m.state = stateConfirmDelete /\ KeyMsg("y"))) =>
          /\ m'.state = stateBrowsing
          /\ m'.items \in ImageItems(m', fs')]_vars

----------------------------------------------------------------------------
(* Claims about the catalog, under SpecCatalog *)

\* the directory the catalog of the state was built for
ListedDir == IF lastMsg.key = "images" THEN m.currentDir ELSE m.dirBrowserPath

\* the entries of a catalog, as a set
Entries(its) == {its[i] : i \in 1..Len(its)}

\* C11: when the directory cannot be listed, the catalog is exactly one
\* synthetic error entry, in image mode and in directory mode, never an empty
\* or a ".."-only list
C11_UnreadableDirGivesErrorEntry ==
    (CatalogBuilt /\ ~IsDirPath(fs, ListedDir)) =>
        /\ Len(m.items) = 1
        /\ m.items[1] # ParentItem

\* C12: every entry of a catalog built with query q has q as a
\* case-insensitive substring of its name, except the ".." entry
C12_EntriesContainQuery ==
    CatalogBuilt =>
        \A i \in 1..Len(m.items) :
            \/ m.items[i] = ParentItem
            \/ Contains(ToLower(m.items[i].fileName), ToLower(m.searchQuery))

\* a directory catalog built with a query that matches two of three
\* directories by case-insensitive comparison
C12_Witness ==
    /\ CatalogBuilt
    /\ lastMsg.key = "dirs"
    /\ m.searchQuery = <<"E">>
    /\ {e.name : e \in ReadDir(fs, ListedDir)} = {SubDir, UpperDir, HiddenDir}
    /\ {it.fileName : it \in Entries(m.items)} = {DotDot, UpperDir, HiddenDir}

\* C13: under Size the sizes are non-increasing, under ModifiedTime the
\* timestamps are non-increasing, under Name the lower-cased names are
\* non-decreasing (".." apart), and ".." is at index 0 under every sort key
C13_CatalogSorted ==
    CatalogBuilt =>
        /\ \A i \in 1..Len(m.items) : m.items[i] = ParentItem => i = 1
        /\ \A i, j \in 1..Len(m.items) :
              (i < j /\ m.items[i] # ParentItem) =>
                  CASE m.sortMode = SortSize -> m.items[i].size >= m.items[j].size
                    [] m.sortMode = SortDate -> m.items[i].modTime >= m.items[j].modTime
                    [] OTHER -> ~StrLess(ToLower(m.items[j].title), ToLower(m.items[i].title))

\* a directory catalog of ".." and three directories of two sizes, by size
C13_Witness ==
    /\ CatalogBuilt
    /\ lastMsg.key = "dirs"
    /\ m.sortMode = SortSize
    /\ Len(m.items) = 4
    /\ m.items[1] = ParentItem
    /\ m.items[4].fileName = HiddenDir

\* C14: flipping showHidden from false to true removes no entry of the
\* catalog and adds only entries whose names start with "."
C14_ShowHiddenOnlyAdds ==
    [][(CatalogToggleHidden /\ ~m.showHidden) =>
          /\ Entries(m.items) \subseteq Entries(m'.items)
          /\ \A it \in Entries(m'.items) \ Entries(m.items) : HasPrefix(it.fileName, <<".">>)]_vars

\* an image catalog of two entries that gained a hidden third by the switch
C14_Witness ==
    /\ CatalogBuilt
    /\ steps = 2
    /\ m.showHidden
    /\ lastMsg.key = "images"
    /\ m.searchQuery = <<>>
    /\ {it.fileName : it \in Entries(m.items)} = {AJpg, BPng, HiddenPng}

----------------------------------------------------------------------------
(* Claims about the session, under Spec *)

\* C15: started with the path of an image file, the session has the file's
\* parent as working directory and the first window-size event leaves it in
\* ViewingImage with the cursor on that file and the render of that file
\* requested last
C15_StartFileSelectedAndRendered ==
    [][(WindowSizeMsg /\ m.initialImagePath # <<>>) =>
          /\ m'.state = stateViewingImage
          /\ m'.currentDir = m.currentDir
          /\ HasSelected(m')
          /\ SelectedItem(m').fileName = m.initialImagePath
          /\ renders' # <<>>
          /\ renders'[Len(renders')].content =
                 Content(Join(m.currentDir, m.initialImagePath), m.filterMode)]_vars

\* C16: in DirBrowsing the commit key and the back key both lead to Browsing
\* with currentDir set to dirBrowserPath and the image catalog of it loaded
C16_CommitAndBackAdoptDirectory ==
    [][\A k \in {"d", "esc"} :
          (m.state = stateDirBrowsing /\ ~m.isSlideshow /\ KeyMsg(k)) =>
              /\ m'.state = stateBrowsing
              /\ m'.currentDir = m.dirBrowserPath
              /\ m'.items \in ImageItems(m', fs')]_vars

\* C17: after every event that changes the session state, statusMsg is empty
C17_StatusClearedOnModeChange ==
    [][m'.state # m.state => m'.statusMsg = ""]_vars

\* C18: a tick handled with isSlideshow in ViewingImage moves the cursor one
\* entry on (from the last entry to the first), requests the render of the
\* entry it reaches and arms the timer again; any other tick changes nothing
\* and arms no timer
C18_TickAdvancesIffSlideshow ==
    [][TickMsg =>
          IF m.isSlideshow /\ m.state = stateViewingImage
          THEN LET next == IF m.cursor = Len(m.items) - 1 THEN 0 ELSE m.cursor + 1
               IN /\ m' = [m EXCEPT !.cursor = next]
                  /\ fs' = fs
                  /\ renders' = renders \o
                        InFlight(<<Content(Join(m.currentDir, m.items[next + 1].fileName),
                                           m.filterMode)>>)
                  /\ ticks' = ticks
          ELSE /\ m' = m
               /\ fs' = fs
               /\ renders' = renders
               /\ ticks' = ticks - 1]_vars

\* a slideshow tick has taken the cursor from the last entry to the first
C18_Witness ==
    /\ lastMsg.type = "tick"
    /\ m.isSlideshow
    /\ m.state = stateViewingImage
    /\ Len(m.items) = 2
    /\ m.cursor = 0
    /\ ticks = 1
    /\ renders # <<>>
    /\ renders[Len(renders)].content = Content(<<AJpeg>>, m.filterMode)

\* C19: in ConfirmDelete every key but y and ctrl+c leads back to Browsing
\* with the files, the catalog, the cursor, searchQuery and currentDir as they
\* were; and a step removes a file only when it is y in ConfirmDelete
C19_OnlyYesDeletes ==
    [][/\ \A k \in Keys \ {"y", "ctrl+c"} :
             (m.state = stateConfirmDelete /\ KeyMsg(k)) =>
                 /\ m'.state = stateBrowsing
                 /\ fs' = fs
                 /\ m'.items = m.items
                 /\ m'.cursor = m.cursor
                 /\ m'.searchQuery = m.searchQuery
                 /\ m'.currentDir = m.currentDir
       /\ (\E e \in fs : fs' = fs \ {e}) =>
             (m.state = stateConfirmDelete /\ KeyMsg("y"))]_vars

\* the delete of the second entry was asked for and called off with enter
C19_Witness ==
    /\ lastMsg = Msg("key", "enter", stateConfirmDelete)
    /\ m.state = stateBrowsing
    /\ m.cursor = 1
    /\ fs = InitFS
    /\ steps = 3

\* C20: with a render in flight a back key in ViewingImage leads to Browsing
\* at once, the render staying in flight; and the handling of a render
\* completion changes neither the state, nor the cursor, nor the catalog
C20_KeysHandledWhileRendering ==
    [][/\ \A k \in {"esc", "q"} :
             (m.state = stateViewingImage /\ renders # <<>> /\ ~m.isSlideshow /\ KeyMsg(k)) =>
                 /\ m'.state = stateBrowsing
                 /\ renders' = renders
                 /\ exit' = "running"
       /\ \A i \in 1..Len(renders) :
             ImageRenderedMsg(i) =>
                 /\ m'.state = m.state
                 /\ m'.cursor = m.cursor
                 /\ m'.items = m.items]_vars

\* an image was opened and left before its render completed, and the
\* completion has been handled in Browsing
C20_Witness ==
    /\ lastMsg = Msg("rendered", "", stateBrowsing)
    /\ m.state = stateBrowsing
    /\ m.imgContent = Content(<<AJpeg>>, FilterColor)
    /\ renders = <<>>
    /\ m.cursor = 0
    /\ steps = 3

----------------------------------------------------------------------------
(* Further claims about the catalog, under SpecCatalog *)

\* C21: under Size (ModifiedTime) two entries of equal size (equal
\* modification time) stand in case-insensitive name order
C21_TiesBrokenByName ==
    CatalogBuilt =>
        \A i, j \in 1..Len(m.items) :
            (/\ i < j
             /\ m.items[i] # ParentItem
             /\ \/ m.sortMode = SortSize /\ m.items[i].size = m.items[j].size
                \/ m.sortMode = SortDate /\ m.items[i].modTime = m.items[j].modTime) =>
                ~StrLess(ToLower(m.items[j].title), ToLower(m.items[i].title))

\* C22: the directory catalog holds ".." exactly when the listed directory is
\* not the root, whatever the query; the image catalog never holds it
C22_ParentEntryIffNotRoot ==
    CatalogBuilt =>
        (ParentItem \in Entries(m.items)) = (lastMsg.key = "dirs" /\ ListedDir # Root)

----------------------------------------------------------------------------
(* Further claims about the session, under Spec *)

\* C23: whenever Searching is entered the search input holds searchQuery, so
\* text left by a cancelled search is not in it
C23_SearchInputSeededWithQuery ==
    [][(m.state # stateSearching /\ m'.state = stateSearching) =>
          m'.searchInput = m'.searchQuery]_vars

\* C24: "/" in DirBrowsing enters Searching with DirBrowsing remembered, and
\* enter then returns to DirBrowsing with the directory catalog of
\* dirBrowserPath built under the new query
C24_SearchFromDirBrowsing ==
    [][/\ (m.state = stateDirBrowsing /\ ~m.isSlideshow /\ KeyMsg("/")) =>
             /\ m'.state = stateSearching
             /\ m'.prevDirState = stateDirBrowsing
       /\ (m.state = stateSearching /\ m.prevDirState = stateDirBrowsing
           /\ ~m.isSlideshow /\ KeyMsg("enter")) =>
             /\ m'.state = stateDirBrowsing
             /\ m'.searchQuery = m.searchInput
             /\ m'.items \in DirItems(m', fs')]_vars

\* C25: isSlideshow implies ViewingImage in every reachable state
C25_SlideshowOnlyInViewer ==
    m.isSlideshow => m.state = stateViewingImage

\* the slideshow has just been started from Browsing
C25_Witness ==
    /\ lastMsg = Msg("key", "P", stateBrowsing)
    /\ m.isSlideshow
    /\ m.state = stateViewingImage
    /\ ticks = 1

\* C26: at most one slideshow timer is armed in every reachable state
C26_AtMostOneTimer ==
    ticks <= 1

\* C27: no handler reads the selected entry of a catalog that has none, so
\* no event ends the process with a panic
C27_SelectedEntryAlwaysFound ==
    exit # "panic"

====
